---- MODULE Spec2Model ----
(***************************************************************************)
(* SmartAgenda: the reminder scheduler (ReminderScheduler), the            *)
(* notification ledger (SQLAlchemyNotificacaoRepository), the event store  *)
(* (SQLAlchemyEventoRepository behind AgendaService and the API router)    *)
(* and the delivery channel (NotificationService / EmailAdapter).          *)
(*                                                                         *)
(* The three tables are sets of rows.  The scheduler thread is a program   *)
(* counter over the statements of iniciar / processar_lembretes; the       *)
(* request handlers run as single steps between the scheduler's steps      *)
(* (each commits before it returns, and the states between the commits of  *)
(* salvar / atualizar are the states a request with an empty reminder      *)
(* list followed by an update produces).                                   *)
(***************************************************************************)
EXTENDS Integers, Sequences, FiniteSets, TLC

\* ---------------------------------------------------------------- bounds
MaxEventos == 2        \* event ids 1..MaxEventos
MaxLinhas == 3         \* reminder row ids 1..MaxLinhas
MaxTempo == 2          \* the clock runs 0..MaxTempo
MaxFalhas == 1         \* delivery-channel failures in one behaviour
MaxPedidos == 2        \* HTTP requests in one behaviour
MaxReinicios == 1      \* process restarts in one behaviour
MaxFalhasBD == 1       \* database errors in one behaviour
MaxPedidosNoCiclo == 1 \* HTTP requests while the first cycle runs
MaxTentativas == 4     \* channel calls in one behaviour without SMTP settings

EventoIds == 1..MaxEventos
Horarios == {1, 2}                 \* data_horario values of the requests
MinutosEntrada == {-1, 0, 1}       \* minutos_antecedencia values of the requests
Erros == {"SMTP timeout", "Variaveis SMTP faltando"}
SemErro == "None"                  \* erro = None
ErroBD == "database is locked"     \* str() of the error a database call raises
SemData == -1                      \* data_envio = None

\* The reminder lists of the requests that arrive while a cycle runs.
ListasNoCiclo == {<<>>, <<0>>, <<-1>>}

\* The reminder lists a request can carry (payload.lembretes), length <= 2.
ListasEntrada ==
  {<<>>} \cup {<<a>> : a \in MinutosEntrada}
         \cup {<<a, b>> : a \in MinutosEntrada, b \in MinutosEntrada}

VARIABLES
  eventos,        \* table eventos: rows [id, data_horario]
  lembretes,      \* table lembretes: rows [id, evento_id, minutos]
  notificacoes,   \* table notificacoes (the ledger)
  relogio,        \* datetime.now()
  rodando,        \* ReminderScheduler.rodando
  encerrando,     \* shutdown_event has called parar()
  pc,             \* position of the scheduler thread
  outro,          \* a second thread on scheduler.iniciar: its position and locals
  agora,          \* processar_lembretes: agora
  evs,            \* processar_lembretes: the EventoModel objects still to process
  lbs,            \* processar_lembretes: the LembreteModel objects still to process
  notificacao,    \* processar_lembretes: the Notificacao entity of the attempt
  erro_envio,     \* processar_lembretes: str(erro_envio)
  trilha,         \* what the current cycle has done so far, step by step
  interferencia,  \* a request handler wrote to the store during the current cycle
  entregues,      \* delivery channel: successful sends per dedup key
  falhas,         \* delivery-channel failures so far
  pedidos,        \* HTTP requests so far
  reinicios,      \* process restarts so far
  falhas_bd,      \* database errors so far
  ultima_entrada, \* payload.lembretes of the last create or update request
  ultimo_pedido,  \* the operation and the evento_id of the last HTTP request
  resposta        \* status code of the last HTTP response (0: none yet)

vars == <<eventos, lembretes, notificacoes, relogio, rodando, encerrando, pc,
          outro,
          agora, evs, lbs, notificacao, erro_envio, trilha, interferencia,
          entregues, falhas, pedidos, reinicios, falhas_bd, ultima_entrada,
          ultimo_pedido, resposta>>

loja == <<eventos, lembretes>>
ciclo == <<agora, evs, lbs, notificacao, erro_envio, trilha>>
fantasmas == <<falhas, pedidos, reinicios, falhas_bd, ultima_entrada,
               ultimo_pedido>>

\* ------------------------------------------------------------- helpers
MaxId(tabela) ==
  IF tabela = {} THEN 0
  ELSE CHOOSE m \in {r.id : r \in tabela} : \A r \in tabela : r.id <= m

\* INTEGER PRIMARY KEY of SQLite: one more than the largest id in use.
NovoId(tabela) == MaxId(tabela) + 1

RECURSIVE PorId(_)
PorId(tabela) ==
  IF tabela = {} THEN <<>>
  ELSE LET r == CHOOSE x \in tabela : \A y \in tabela : x.id <= y.id
       IN <<r>> \o PorId(tabela \ {r})

NenhumaNotificacao == [id |-> 0, evento_id |-> 0, lembrete_minutos |-> 0]

\* Session objects: the attributes loaded by a query stay as read until the
\* session commits; a commit expires every object of the session, and the
\* next attribute access reloads the row (or fails when the row is gone).
Objeto(r, valor) == [id |-> r.id, valor |-> valor, expirado |-> FALSE]
Expirar(o) == [id |-> o.id, valor |-> 0, expirado |-> TRUE]
ExpirarTodos(s) == [k \in 1..Len(s) |-> Expirar(s[k])]

\* The objects a query returns, in rowid order, with the column the
\* scheduler reads from them.
ObjetosEvento(tabela) ==
  LET s == PorId(tabela)
  IN [k \in 1..Len(s) |-> Objeto(s[k], s[k].data_horario)]

ObjetosLembrete(tabela) ==
  LET s == PorId(tabela)
  IN [k \in 1..Len(s) |-> Objeto(s[k], s[k].minutos)]

TemLinha(tabela, id) == \E r \in tabela : r.id = id
Linha(tabela, id) == CHOOSE r \in tabela : r.id = id

\* ------------------------------------------------------------ entities
\* adicionar_lembrete that also refuses a reminder at the event's own time.
adicionar_lembrete_positivo(lista, minutos) ==
  IF minutos <= 0
  THEN [lembretes |-> lista, erro |-> TRUE]
  ELSE [lembretes |-> Append(lista, minutos), erro |-> FALSE]

\* adicionar_lembrete without its check.
adicionar_lembrete_sem_validar(lista, minutos) ==
  [lembretes |-> Append(lista, minutos), erro |-> FALSE]

\* Evento.adicionar_lembrete on an event whose reminders are `lista`: the
\* reminders afterwards, and whether the ValueError was raised.
adicionar_lembrete(lista, minutos) ==
  IF minutos < 0
  THEN [lembretes |-> lista, erro |-> TRUE]
  ELSE [lembretes |-> Append(lista, minutos), erro |-> FALSE]

\* AgendaService.criar_novo_evento / atualizar_evento: the loop over the
\* requested minutes on the new entity; the first ValueError ends it.
RECURSIVE MontarLembretes(_, _)
MontarLembretes(lista, entrada) ==
  IF entrada = <<>> THEN [lembretes |-> lista, erro |-> FALSE]
  ELSE LET r == adicionar_lembrete(lista, Head(entrada))
       IN IF r.erro THEN r ELSE MontarLembretes(r.lembretes, Tail(entrada))

\* The rows of the reminders of `lista` for event `eid`, ids allocated in
\* list order after the rows of `tabela`.
NovasLinhas(tabela, eid, lista) ==
  {[id |-> MaxId(tabela) + k, evento_id |-> eid, minutos |-> lista[k]] :
     k \in 1..Len(lista)}

\* ---------------------------------------------------------------- Init
\* No second thread: only startup_event has spawned one.
SemThread ==
  [pc |-> "nenhuma", agora |-> 0, evs |-> <<>>, lbs |-> <<>>,
   notificacao |-> NenhumaNotificacao, erro_envio |-> SemErro,
   trilha |-> <<>>, interferencia |-> FALSE]

Parado ==
  /\ outro = SemThread
  /\ notificacoes = {}
  /\ relogio = 0
  /\ rodando = FALSE
  /\ encerrando = FALSE
  /\ pc = "spawn"
  /\ agora = 0
  /\ evs = <<>>
  /\ lbs = <<>>
  /\ notificacao = NenhumaNotificacao
  /\ erro_envio = SemErro
  /\ trilha = <<>>
  /\ interferencia = FALSE
  /\ entregues = [k \in EventoIds \X MinutosEntrada |-> 0]
  /\ falhas = 0
  /\ pedidos = 0
  /\ reinicios = 0
  /\ falhas_bd = 0
  /\ ultima_entrada = <<>>
  /\ ultimo_pedido = [op |-> "", evento_id |-> 0]
  /\ resposta = 0

\* ------------------------------------------------------ request handlers
EmCiclo ==
  pc \in {"evento", "avaliar", "dedup", "criar", "enviar", "marcar_enviado",
          "marcar_falha"}

\* A handler that committed a write while a cycle is in flight.
Escreveu == interferencia' = (interferencia \/ EmCiclo)

Pedido(status) ==
  /\ pedidos < MaxPedidos
  /\ pedidos' = pedidos + 1
  /\ resposta' = status
  /\ UNCHANGED <<outro, relogio, rodando, encerrando, pc, ciclo, falhas, reinicios,
                 falhas_bd>>

\* The database: the three tables.
BD == [eventos |-> eventos, lembretes |-> lembretes, notificacoes |-> notificacoes]
BDVazio == [eventos |-> {}, lembretes |-> {}, notificacoes |-> {}]

Gravar(bd) ==
  /\ eventos' = bd.eventos
  /\ lembretes' = bd.lembretes
  /\ notificacoes' = bd.notificacoes

\* salvar that also writes a PENDENTE notification for each reminder.
salvar_com_notificacoes(bd, data, lista) ==
  LET eid == NovoId(bd.eventos)
  IN [bd EXCEPT
        !.eventos = @ \cup {[id |-> eid, data_horario |-> data]},
        !.lembretes = @ \cup NovasLinhas(@, eid, lista),
        !.notificacoes = @ \cup
           {[id |-> MaxId(@) + k, evento_id |-> eid,
             lembrete_minutos |-> lista[k], canal |-> "email",
             status |-> "PENDENTE", data_envio |-> SemData, erro |-> SemErro] :
              k \in 1..Len(lista)}]

\* SQLAlchemyEventoRepository.salvar: the event row, then its reminder rows.
salvar(bd, data, lista) ==
  LET eid == NovoId(bd.eventos)
  IN [bd EXCEPT
        !.eventos = @ \cup {[id |-> eid, data_horario |-> data]},
        !.lembretes = @ \cup NovasLinhas(@, eid, lista)]

\* atualizar that removes the notifications of the event with its old
\* reminders.
atualizar_e_limpa_notificacoes(bd, evento_id, data, lista) ==
  LET restantes == {r \in bd.lembretes : r.evento_id # evento_id}
  IN [eventos |-> {e \in bd.eventos : e.id # evento_id}
                    \cup {[id |-> evento_id, data_horario |-> data]},
      lembretes |-> restantes \cup NovasLinhas(restantes, evento_id, lista),
      notificacoes |-> {n \in bd.notificacoes : n.evento_id # evento_id}]

\* atualizar without evento_model.lembretes.clear(): the new reminder rows
\* are added to the old ones.
atualizar_sem_limpar(bd, evento_id, data, lista) ==
  [bd EXCEPT
     !.eventos = {e \in @ : e.id # evento_id}
                   \cup {[id |-> evento_id, data_horario |-> data]},
     !.lembretes = @ \cup NovasLinhas(@, evento_id, lista)]

\* SQLAlchemyEventoRepository.atualizar on an existing event: the scalar
\* fields, the old reminder rows removed, the new ones inserted.
atualizar(bd, evento_id, data, lista) ==
  LET restantes == {r \in bd.lembretes : r.evento_id # evento_id}
  IN [bd EXCEPT
        !.eventos = {e \in @ : e.id # evento_id}
                      \cup {[id |-> evento_id, data_horario |-> data]},
        !.lembretes = restantes \cup NovasLinhas(restantes, evento_id, lista)]

\* SQLAlchemyEventoRepository.excluir on an existing event: the row and, by
\* the cascade of EventoModel, its reminders and its notifications.
excluir(bd, evento_id) ==
  [eventos |-> {e \in bd.eventos : e.id # evento_id},
   lembretes |-> {r \in bd.lembretes : r.evento_id # evento_id},
   notificacoes |-> {n \in bd.notificacoes : n.evento_id # evento_id}]

\* The ids the tables of the model hold.
Cabe(bd) ==
  /\ MaxId(bd.eventos) <= MaxEventos
  /\ MaxId(bd.lembretes) <= MaxLinhas

\* POST /eventos/ with the payload's data_horario and lembretes.
criar_evento(data, entrada) ==
  LET entidade == MontarLembretes(<<>>, entrada)
      lista == entidade.lembretes
  IN /\ ultima_entrada' = entrada
     /\ ultimo_pedido' = [op |-> "criar", evento_id |-> 0]
     /\ IF entidade.erro
        THEN /\ Pedido(400)
             /\ UNCHANGED <<outro, loja, notificacoes, entregues, interferencia>>
        ELSE /\ Cabe(salvar(BD, data, lista))
             /\ Gravar(salvar(BD, data, lista))
             /\ Pedido(200)
             /\ Escreveu
             /\ UNCHANGED entregues

criar_evento_endpoint ==
  \E data \in Horarios, entrada \in ListasEntrada : criar_evento(data, entrada)

\* PUT /eventos/{evento_id} that stores the event when the id is not there.
atualizar_ou_criar(evento_id, data, entrada) ==
  LET entidade == MontarLembretes(<<>>, entrada)
      lista == entidade.lembretes
  IN /\ ultima_entrada' = entrada
     /\ ultimo_pedido' = [op |-> "atualizar", evento_id |-> evento_id]
     /\ IF entidade.erro
        THEN /\ Pedido(404)
             /\ UNCHANGED <<outro, loja, notificacoes, entregues, interferencia>>
        ELSE /\ Cabe(atualizar(BD, evento_id, data, lista))
             /\ Gravar(atualizar(BD, evento_id, data, lista))
             /\ Pedido(200)
             /\ Escreveu
             /\ UNCHANGED entregues

\* PUT /eventos/{evento_id} with the payload's data_horario and lembretes.
atualizar_evento(evento_id, data, entrada) ==
  LET entidade == MontarLembretes(<<>>, entrada)
      lista == entidade.lembretes
  IN /\ ultima_entrada' = entrada
     /\ ultimo_pedido' = [op |-> "atualizar", evento_id |-> evento_id]
     /\ IF entidade.erro \/ ~TemLinha(eventos, evento_id)
        THEN /\ Pedido(404)
             /\ UNCHANGED <<outro, loja, notificacoes, entregues, interferencia>>
        ELSE /\ Cabe(atualizar(BD, evento_id, data, lista))
             /\ Gravar(atualizar(BD, evento_id, data, lista))
             /\ Pedido(200)
             /\ Escreveu
             /\ UNCHANGED entregues

atualizar_evento_endpoint ==
  \E evento_id \in EventoIds, data \in Horarios, entrada \in ListasEntrada :
    atualizar_evento(evento_id, data, entrada)

\* DELETE /eventos/{evento_id}
excluir_evento_endpoint ==
  \E evento_id \in EventoIds :
    /\ ultima_entrada' = <<>>
    /\ ultimo_pedido' = [op |-> "excluir", evento_id |-> evento_id]
    /\ IF ~TemLinha(eventos, evento_id)
       THEN /\ Pedido(404)
            /\ UNCHANGED <<outro, loja, notificacoes, entregues, interferencia>>
       ELSE /\ Gravar(excluir(BD, evento_id))
            /\ entregues' = [k \in DOMAIN entregues |->
                               IF k[1] = evento_id THEN 0 ELSE entregues[k]]
            /\ Pedido(200)
            /\ Escreveu

\* ------------------------------------------------------------ the clock
\* Time passes.  The clock is read at the start of a cycle (line 99) and when
\* an outcome is written (repositories.py lines 213, 239): it advances while
\* the thread has not started or sleeps, and while the channel call runs.
Tick ==
  /\ pc \in {"spawn", "dormir", "fim", "marcar_enviado", "marcar_falha"}
  /\ relogio < MaxTempo
  /\ relogio' = relogio + 1
  /\ UNCHANGED <<outro, loja, notificacoes, rodando, encerrando, pc, ciclo,
                 interferencia, entregues, fantasmas, resposta>>

\* --------------------------------------------------- the scheduler thread
Passo(op, evento_id, minutos) ==
  [op |-> op, evento_id |-> evento_id, minutos |-> minutos]

\* An attribute access on a session object: an expired object is reloaded
\* from its row; when the row is gone the access raises ObjectDeletedError.
EventoSumiu(o) == o.expirado /\ ~TemLinha(eventos, o.id)
EventoLido(o) ==
  IF o.expirado THEN Objeto(o, Linha(eventos, o.id).data_horario) ELSE o
LembreteSumiu(o) == o.expirado /\ ~TemLinha(lembretes, o.id)
LembreteLido(o) ==
  IF o.expirado THEN Objeto(o, Linha(lembretes, o.id).minutos) ELSE o

\* The dedup key of a notification, with canal = "email" throughout.
Chave(n) == <<n.evento_id, n.lembrete_minutos>>

\* horario_disparo = evento.data_horario - timedelta(minutes=minutos)
horario_disparo(data_horario, minutos) == data_horario - minutos

\* The comparison that leaves out the trigger instant itself.
devido_depois(instante, data_horario, minutos) ==
  instante > data_horario - minutos

\* No comparison: every reminder is taken as due.
devido_sempre(instante, data_horario, minutos) == TRUE

\* A reminder that stops being due once the event has started.
devido_ate_o_evento(instante, data_horario, minutos) ==
  instante >= data_horario - minutos /\ instante <= data_horario

\* A due test that consults the ledger: a reminder with an entry of its
\* minutes and a recorded outcome is not due again.
devido_uma_vez(instante, data_horario, minutos) ==
  /\ instante >= data_horario - minutos
  /\ ~\E n \in notificacoes :
        n.lembrete_minutos = minutos /\ n.status = "FALHOU"

\* if agora < horario_disparo: continue
devido(instante, data_horario, minutos) ==
  ~(instante < horario_disparo(data_horario, minutos))

\* ja_enviada with the status filter on the wrong status.
ja_enviada_pendente(evento_id, lembrete_minutos, canal) ==
  \E n \in notificacoes :
    /\ n.evento_id = evento_id
    /\ n.lembrete_minutos = lembrete_minutos
    /\ n.canal = canal
    /\ n.status = "PENDENTE"

\* ja_enviada with the event and the minutes taken one for the other.
ja_enviada_trocada(evento_id, lembrete_minutos, canal) ==
  \E n \in notificacoes :
    /\ n.evento_id = lembrete_minutos
    /\ n.lembrete_minutos = evento_id
    /\ n.canal = canal
    /\ n.status = "ENVIADO"

\* ja_enviada without the filter on the reminder's minutes.
ja_enviada_por_evento(evento_id, lembrete_minutos, canal) ==
  \E n \in notificacoes :
    /\ n.evento_id = evento_id
    /\ n.canal = canal
    /\ n.status = "ENVIADO"

\* ja_enviada that takes any entry of the event, whatever its minutes and
\* its status, for the entry of the reminder.
ja_enviada_outro_lembrete(evento_id, lembrete_minutos, canal) ==
  \E n \in notificacoes :
    /\ n.evento_id = evento_id
    /\ n.canal = canal

\* ja_enviada that counts an ENVIADO entry only when it was sent at or
\* after the trigger instant the event has now.
ja_enviada_da_data(evento_id, lembrete_minutos, canal) ==
  \E n \in notificacoes :
    /\ n.evento_id = evento_id
    /\ n.lembrete_minutos = lembrete_minutos
    /\ n.canal = canal
    /\ n.status = "ENVIADO"
    /\ \A e \in eventos :
         e.id = evento_id => n.data_envio >= e.data_horario - lembrete_minutos

\* SQLAlchemyNotificacaoRepository.ja_enviada
ja_enviada(evento_id, lembrete_minutos, canal) ==
  \E n \in notificacoes :
    /\ n.evento_id = evento_id
    /\ n.lembrete_minutos = lembrete_minutos
    /\ n.canal = canal
    /\ n.status = "ENVIADO"

\* criar that takes over the failed row of the key instead of inserting.
criar_sobre_falha(n) ==
  LET velhas == {f \in notificacoes : /\ f.evento_id = n.evento_id
                                      /\ f.lembrete_minutos = n.lembrete_minutos
                                      /\ f.status = "FALHOU"}
  IN (notificacoes \ velhas) \cup
       {[id |-> NovoId(notificacoes \ velhas), evento_id |-> n.evento_id,
         lembrete_minutos |-> n.lembrete_minutos, canal |-> n.canal,
         status |-> n.status, data_envio |-> SemData, erro |-> SemErro]}

\* criar that writes the row with the outcome already in it.
criar_enviado(n) ==
  notificacoes \cup
    {[id |-> NovoId(notificacoes), evento_id |-> n.evento_id,
      lembrete_minutos |-> n.lembrete_minutos, canal |-> n.canal,
      status |-> "ENVIADO", data_envio |-> relogio, erro |-> SemErro]}

\* SQLAlchemyNotificacaoRepository.criar: the table with the new row.
criar(n) ==
  notificacoes \cup
    {[id |-> NovoId(notificacoes), evento_id |-> n.evento_id,
      lembrete_minutos |-> n.lembrete_minutos, canal |-> n.canal,
      status |-> n.status, data_envio |-> SemData, erro |-> SemErro]}

\* marcar_enviado that updates every row of the key of the notification.
marcar_enviado_por_chave(notificacao_id) ==
  {IF \E x \in notificacoes : x.id = notificacao_id /\ Chave(x) = Chave(n)
   THEN [n EXCEPT !.status = "ENVIADO", !.data_envio = relogio, !.erro = SemErro]
   ELSE n : n \in notificacoes}

\* marcar_enviado that sets the status and leaves data_envio as it was.
marcar_enviado_sem_data(notificacao_id) ==
  {IF n.id = notificacao_id
   THEN [n EXCEPT !.status = "ENVIADO", !.erro = SemErro]
   ELSE n : n \in notificacoes}

\* SQLAlchemyNotificacaoRepository.marcar_enviado: the table after the call.
marcar_enviado(notificacao_id) ==
  {IF n.id = notificacao_id
   THEN [n EXCEPT !.status = "ENVIADO", !.data_envio = relogio, !.erro = SemErro]
   ELSE n : n \in notificacoes}

\* marcar_falha that records the failure without its text.
marcar_falha_sem_erro(notificacao_id, erro) ==
  {IF n.id = notificacao_id
   THEN [n EXCEPT !.status = "FALHOU", !.data_envio = relogio]
   ELSE n : n \in notificacoes}

\* marcar_falha that sets the fields on the object and never commits.
marcar_falha_sem_commit(notificacao_id, erro) == notificacoes

\* marcar_falha that keeps only the newest failure of a key.
marcar_falha_substitui(notificacao_id, erro) ==
  LET chave == {Chave(x) : x \in {y \in notificacoes : y.id = notificacao_id}}
      velhas == {f \in notificacoes : /\ Chave(f) \in chave
                                      /\ f.status = "FALHOU"}
  IN {IF n.id = notificacao_id
      THEN [n EXCEPT !.status = "FALHOU", !.data_envio = relogio, !.erro = erro]
      ELSE n : n \in notificacoes \ velhas}

\* SQLAlchemyNotificacaoRepository.marcar_falha: the table after the call.
marcar_falha(notificacao_id, erro) ==
  {IF n.id = notificacao_id
   THEN [n EXCEPT !.status = "FALHOU", !.data_envio = relogio, !.erro = erro]
   ELSE n : n \in notificacoes}

\* ReminderScheduler.iniciar, line 48: the thread sets the flag and enters
\* the loop.
iniciar ==
  /\ pc = "spawn"
  /\ rodando' = TRUE
  /\ pc' = "loop"
  /\ UNCHANGED <<outro, loja, notificacoes, relogio, encerrando, ciclo, interferencia,
                 entregues, fantasmas, resposta>>

\* ReminderScheduler.parar, called by shutdown_event.
parar ==
  /\ ~encerrando
  /\ encerrando' = TRUE
  /\ rodando' = FALSE
  /\ UNCHANGED <<outro, loja, notificacoes, relogio, pc, ciclo, interferencia,
                 entregues, fantasmas, resposta>>

\* while self.rodando: the flag read as False ends the loop.
sair_do_loop ==
  /\ pc = "loop"
  /\ ~rodando
  /\ pc' = "fim"
  /\ UNCHANGED <<outro, loja, notificacoes, relogio, rodando, encerrando, ciclo,
                 interferencia, entregues, fantasmas, resposta>>

\* processar_lembretes, lines 90-105: the session, the events, the instant.
iniciar_ciclo ==
  /\ pc = "loop"
  /\ rodando
  /\ evs' = ObjetosEvento(eventos)
  /\ agora' = relogio
  /\ lbs' = <<>>
  /\ notificacao' = NenhumaNotificacao
  /\ erro_envio' = SemErro
  /\ trilha' = <<>>
  /\ interferencia' = FALSE
  /\ pc' = "evento"
  /\ UNCHANGED <<outro, loja, notificacoes, relogio, rodando, encerrando, entregues,
                 fantasmas, resposta>>

\* iniciar without the try of lines 54-59: an exception that leaves
\* processar_lembretes leaves the loop and iniciar with it.
FimDoCiclo_propaga(passos) ==
  /\ pc' = IF passos = <<>> THEN "dormir" ELSE "fim"
  /\ evs' = <<>>
  /\ lbs' = <<>>
  /\ notificacao' = NenhumaNotificacao
  /\ erro_envio' = SemErro
  /\ trilha' = trilha \o passos
  /\ UNCHANGED agora

\* The end of processar_lembretes (finally: db.close()) back in iniciar,
\* which sleeps; an exception that escaped is logged by iniciar first.
FimDoCiclo(passos) ==
  /\ pc' = "dormir"
  /\ evs' = <<>>
  /\ lbs' = <<>>
  /\ notificacao' = NenhumaNotificacao
  /\ erro_envio' = SemErro
  /\ trilha' = trilha \o passos
  /\ UNCHANGED agora

Excecao == <<Passo("excecao", 0, 0)>>

\* An exception raised while the reminder (evento_id, minutos) is processed.
ExcecaoEm(evento_id, minutos) == <<Passo("excecao", evento_id, minutos)>>

\* The loop over the events left for the sleep as soon as one event had a
\* due reminder.
proximo_evento_um_so ==
  /\ pc = "evento"
  /\ IF evs = <<>> \/ trilha # <<>> THEN FimDoCiclo(<<>>)
     ELSE IF EventoSumiu(Head(evs)) THEN FimDoCiclo(Excecao)
     ELSE LET e == EventoLido(Head(evs))
          IN /\ evs' = <<e>> \o Tail(evs)
             /\ lbs' = ObjetosLembrete({r \in lembretes : r.evento_id = e.id})
             /\ pc' = "avaliar"
             /\ UNCHANGED <<outro, agora, notificacao, erro_envio, trilha>>
  /\ UNCHANGED <<outro, loja, notificacoes, relogio, rodando, encerrando,
                 interferencia, entregues, fantasmas, resposta>>

\* for evento in eventos, lines 108-114: the reminders of the next event.
proximo_evento ==
  /\ pc = "evento"
  /\ IF evs = <<>> THEN FimDoCiclo(<<>>)
     ELSE IF EventoSumiu(Head(evs)) THEN FimDoCiclo(Excecao)
     ELSE LET e == EventoLido(Head(evs))
          IN /\ evs' = <<e>> \o Tail(evs)
             /\ lbs' = ObjetosLembrete({r \in lembretes : r.evento_id = e.id})
             /\ pc' = "avaliar"
             /\ UNCHANGED <<outro, agora, notificacao, erro_envio, trilha>>
  /\ UNCHANGED <<outro, loja, notificacoes, relogio, rodando, encerrando,
                 interferencia, entregues, fantasmas, resposta>>

\* The loop over the reminders testing the flag: a cycle that parar cuts
\* short.
avaliar_interrompivel ==
  /\ pc = "avaliar"
  /\ IF ~rodando
     THEN FimDoCiclo(<<>>)
     ELSE IF lbs = <<>>
     THEN /\ evs' = Tail(evs)
          /\ pc' = "evento"
          /\ UNCHANGED <<outro, agora, lbs, notificacao, erro_envio, trilha>>
     ELSE IF EventoSumiu(Head(evs)) \/ LembreteSumiu(Head(lbs))
     THEN FimDoCiclo(Excecao)
     ELSE LET e == EventoLido(Head(evs))
              l == LembreteLido(Head(lbs))
          IN /\ evs' = <<e>> \o Tail(evs)
             /\ IF devido(agora, e.valor, l.valor)
                THEN /\ lbs' = <<l>> \o Tail(lbs)
                     /\ trilha' = Append(trilha, Passo("devido", e.id, l.valor))
                     /\ pc' = "dedup"
                ELSE /\ lbs' = Tail(lbs)
                     /\ trilha' = trilha
                     /\ pc' = "avaliar"
             /\ UNCHANGED <<outro, agora, notificacao, erro_envio>>
  /\ UNCHANGED <<outro, loja, notificacoes, relogio, rodando, encerrando,
                 interferencia, entregues, fantasmas, resposta>>

\* for lembrete in lembretes, lines 117-132: is the next reminder due?
avaliar ==
  /\ pc = "avaliar"
  /\ IF lbs = <<>>
     THEN /\ evs' = Tail(evs)
          /\ pc' = "evento"
          /\ UNCHANGED <<outro, agora, lbs, notificacao, erro_envio, trilha>>
     ELSE IF EventoSumiu(Head(evs)) \/ LembreteSumiu(Head(lbs))
     THEN FimDoCiclo(Excecao)
     ELSE LET e == EventoLido(Head(evs))
              l == LembreteLido(Head(lbs))
          IN /\ evs' = <<e>> \o Tail(evs)
             /\ IF devido(agora, e.valor, l.valor)
                THEN /\ lbs' = <<l>> \o Tail(lbs)
                     /\ trilha' = Append(trilha, Passo("devido", e.id, l.valor))
                     /\ pc' = "dedup"
                ELSE /\ lbs' = Tail(lbs)
                     /\ trilha' = trilha
                     /\ pc' = "avaliar"
             /\ UNCHANGED <<outro, agora, notificacao, erro_envio>>
  /\ UNCHANGED <<outro, loja, notificacoes, relogio, rodando, encerrando,
                 interferencia, entregues, fantasmas, resposta>>

\* lines 135-145: a reminder already sent is skipped.
dedup ==
  /\ pc = "dedup"
  /\ LET e == Head(evs)
         l == Head(lbs)
     IN IF ja_enviada(e.id, l.valor, "email")
        THEN /\ lbs' = Tail(lbs)
             /\ trilha' = Append(trilha, Passo("ja_enviada", e.id, l.valor))
             /\ pc' = "avaliar"
        ELSE /\ lbs' = lbs
             /\ trilha' = trilha
             /\ pc' = "criar"
  /\ UNCHANGED <<outro, loja, notificacoes, relogio, rodando, encerrando, agora, evs,
                 notificacao, erro_envio, interferencia, entregues, fantasmas,
                 resposta>>

\* lines 148-156: the PENDENTE row of the attempt; the commit expires the
\* objects of the session.
criar_pendente ==
  /\ pc = "criar"
  /\ LET e == Head(evs)
         l == Head(lbs)
         n == [evento_id |-> e.id, lembrete_minutos |-> l.valor,
               canal |-> "email", status |-> "PENDENTE"]
     IN /\ notificacoes' = criar(n)
        /\ notificacao' = [id |-> NovoId(notificacoes), evento_id |-> e.id,
                           lembrete_minutos |-> l.valor]
        /\ trilha' = Append(trilha, Passo("criar", e.id, l.valor))
  /\ evs' = ExpirarTodos(evs)
  /\ lbs' = ExpirarTodos(lbs)
  /\ pc' = "enviar"
  /\ UNCHANGED <<outro, loja, relogio, rodando, encerrando, agora, erro_envio,
                 interferencia, entregues, fantasmas, resposta>>

\* lines 159-169 and 178-185: the delivery-channel call
\* (NotificationService.enviar_notificacao_email, EmailAdapter.enviar_email),
\* which returns or raises.  The event is read again first (line 162); when
\* its row is gone the handler of line 178 raises at line 182 in its turn.
enviar ==
  /\ pc = "enviar"
  /\ IF EventoSumiu(Head(evs))
     THEN /\ FimDoCiclo(Excecao)
          /\ UNCHANGED <<outro, entregues, falhas>>
     ELSE /\ evs' = <<EventoLido(Head(evs))>> \o Tail(evs)
          /\ \/ /\ entregues' = [entregues EXCEPT ![Chave(notificacao)] = @ + 1]
                /\ trilha' = Append(trilha, Passo("enviado", notificacao.evento_id,
                                                  notificacao.lembrete_minutos))
                /\ pc' = "marcar_enviado"
                /\ UNCHANGED <<outro, erro_envio, falhas>>
             \/ /\ falhas < MaxFalhas
                /\ falhas' = falhas + 1
                /\ \E erro \in Erros : erro_envio' = erro
                /\ trilha' = Append(trilha, Passo("falhou", notificacao.evento_id,
                                                  notificacao.lembrete_minutos))
                /\ pc' = "marcar_falha"
                /\ UNCHANGED entregues
          /\ UNCHANGED <<outro, agora, lbs, notificacao>>
  /\ UNCHANGED <<outro, loja, notificacoes, relogio, rodando, encerrando,
                 interferencia, pedidos, reinicios, falhas_bd, ultima_entrada,
                 ultimo_pedido, resposta>>

\* The delivery-channel call when the SMTP settings are incomplete:
\* validar_config_smtp raises ValueError on every call, EmailAdapter.enviar_email
\* logs it and raises it again, and the handler of line 178 takes it.
enviar_sem_smtp ==
  /\ pc = "enviar"
  /\ falhas < MaxTentativas
  /\ IF EventoSumiu(Head(evs))
     THEN /\ FimDoCiclo(Excecao)
          /\ UNCHANGED falhas
     ELSE /\ evs' = <<EventoLido(Head(evs))>> \o Tail(evs)
          /\ falhas' = falhas + 1
          /\ erro_envio' = "Variaveis SMTP faltando"
          /\ trilha' = Append(trilha, Passo("falhou", notificacao.evento_id,
                                            notificacao.lembrete_minutos))
          /\ pc' = "marcar_falha"
          /\ UNCHANGED <<outro, agora, lbs, notificacao>>
  /\ UNCHANGED <<outro, loja, notificacoes, relogio, rodando, encerrando,
                 interferencia, entregues, pedidos, reinicios, falhas_bd,
                 ultima_entrada, ultimo_pedido, resposta>>

\* lines 171-176: the outcome ENVIADO; the commit expires the session, and
\* line 175 reads the event again.
registrar_envio ==
  /\ pc = "marcar_enviado"
  /\ notificacoes' = marcar_enviado(notificacao.id)
  /\ LET gravou == TemLinha(notificacoes, notificacao.id)
         e == IF gravou THEN Expirar(Head(evs)) ELSE Head(evs)
     IN IF EventoSumiu(e)
        THEN FimDoCiclo(Excecao)
        ELSE /\ evs' = <<EventoLido(e)>>
                         \o (IF gravou THEN ExpirarTodos(Tail(evs)) ELSE Tail(evs))
             /\ lbs' = IF gravou THEN ExpirarTodos(Tail(lbs)) ELSE Tail(lbs)
             /\ notificacao' = NenhumaNotificacao
             /\ pc' = "avaliar"
             /\ UNCHANGED <<outro, agora, erro_envio, trilha>>
  /\ UNCHANGED <<outro, loja, relogio, rodando, encerrando, interferencia, entregues,
                 fantasmas, resposta>>

\* The handler of line 178 raising the error again after recording it.
registrar_falha_e_propaga ==
  /\ pc = "marcar_falha"
  /\ notificacoes' = marcar_falha(notificacao.id, erro_envio)
  /\ FimDoCiclo(Excecao)
  /\ UNCHANGED <<outro, loja, relogio, rodando, encerrando, interferencia, entregues,
                 fantasmas, resposta>>

\* lines 178-187: the outcome FALHOU with the text of the error.
registrar_falha ==
  /\ pc = "marcar_falha"
  /\ IF EventoSumiu(Head(evs))
     THEN /\ FimDoCiclo(Excecao)
          /\ UNCHANGED notificacoes
     ELSE /\ notificacoes' = marcar_falha(notificacao.id, erro_envio)
          /\ LET gravou == TemLinha(notificacoes, notificacao.id)
             IN /\ evs' = IF gravou THEN ExpirarTodos(evs)
                          ELSE <<EventoLido(Head(evs))>> \o Tail(evs)
                /\ lbs' = IF gravou THEN ExpirarTodos(Tail(lbs)) ELSE Tail(lbs)
          /\ notificacao' = NenhumaNotificacao
          /\ erro_envio' = SemErro
          /\ pc' = "avaliar"
          /\ UNCHANGED <<outro, agora, trilha>>
  /\ UNCHANGED <<outro, loja, relogio, rodando, encerrando, interferencia, entregues,
                 fantasmas, resposta>>


\* ------------------------------------------------------- database errors
\* A call on the session raises (sqlite3 "database is locked", a file that
\* cannot be opened, ...).  What the scheduler does with the exception
\* depends on the statement that raised it.
ErroDoBanco ==
  /\ falhas_bd < MaxFalhasBD
  /\ falhas_bd' = falhas_bd + 1
  /\ UNCHANGED <<outro, loja, relogio, rodando, encerrando, interferencia, entregues,
                 falhas, pedidos, reinicios, ultima_entrada, ultimo_pedido,
                 resposta>>

\* SessionLocal() / db.query(EventoModel).all(), lines 90-96, raises: the
\* exception leaves processar_lembretes and is logged by iniciar, line 59.
iniciar_ciclo_falha ==
  /\ pc = "loop"
  /\ rodando
  /\ ErroDoBanco
  /\ FimDoCiclo(Excecao)
  /\ UNCHANGED notificacoes

\* notificacao_repo.ja_enviada, line 135, raises: outside the try of line
\* 159, the exception leaves both loops.
dedup_falha ==
  /\ pc = "dedup"
  /\ ErroDoBanco
  /\ FimDoCiclo(ExcecaoEm(Head(evs).id, Head(lbs).valor))
  /\ UNCHANGED notificacoes

\* notificacao_repo.criar, line 156, raises: nothing is written, and the
\* exception leaves both loops.
criar_falha ==
  /\ pc = "criar"
  /\ ErroDoBanco
  /\ FimDoCiclo(ExcecaoEm(Head(evs).id, Head(lbs).valor))
  /\ UNCHANGED notificacoes

\* notificacao_repo.marcar_enviado, line 171, raises after the channel call
\* returned: the row stays PENDENTE and the handler of line 178 takes the
\* exception as the error of the attempt.
registrar_envio_falha ==
  /\ pc = "marcar_enviado"
  /\ ErroDoBanco
  /\ erro_envio' = ErroBD
  /\ trilha' = Append(trilha, Passo("erro_bd", notificacao.evento_id,
                                    notificacao.lembrete_minutos))
  /\ pc' = "marcar_falha"
  /\ UNCHANGED <<outro, notificacoes, agora, evs, lbs, notificacao>>

\* notificacao_repo.marcar_falha, line 187, raises inside the handler: the
\* row stays PENDENTE and the exception leaves both loops.
registrar_falha_falha ==
  /\ pc = "marcar_falha"
  /\ ErroDoBanco
  /\ FimDoCiclo(ExcecaoEm(notificacao.evento_id, notificacao.lembrete_minutos))
  /\ UNCHANGED notificacoes

\* time.sleep(self.intervalo_segundos), line 62, then the loop test again.
dormir ==
  /\ pc = "dormir"
  /\ pc' = "loop"
  /\ agora' = 0
  /\ trilha' = <<>>
  /\ interferencia' = FALSE
  /\ UNCHANGED <<outro, loja, notificacoes, relogio, rodando, encerrando, evs, lbs,
                 notificacao, erro_envio, entregues, fantasmas, resposta>>

\* The process ends (the scheduler thread is a daemon thread: it dies where
\* it is) and is started again: startup_event spawns a new thread on a new
\* ReminderScheduler.  The database file stays.
reiniciar ==
  /\ reinicios < MaxReinicios
  /\ reinicios' = reinicios + 1
  /\ pc' = "spawn"
  /\ rodando' = FALSE
  /\ outro' = SemThread
  /\ encerrando' = FALSE
  /\ agora' = 0
  /\ evs' = <<>>
  /\ lbs' = <<>>
  /\ notificacao' = NenhumaNotificacao
  /\ erro_envio' = SemErro
  /\ trilha' = <<>>
  /\ interferencia' = FALSE
  /\ UNCHANGED <<loja, notificacoes, relogio, entregues, falhas, pedidos,
                 falhas_bd, ultima_entrada, ultimo_pedido, resposta>>

\* ------------------------------------------------------- specifications
\* The events registered before the application starts: requests that
\* POST /eventos/ accepted, in the order they arrived.
Cadastros ==
  {[data |-> 1, lembretes |-> <<1, 0>>],
   [data |-> 2, lembretes |-> <<1>>],
   [data |-> 1, lembretes |-> <<0, 0>>]}

LojasIniciais ==
  LET uma == {salvar(BDVazio, c.data, c.lembretes) : c \in Cadastros}
      duas == {salvar(bd, c.data, c.lembretes) : bd \in uma, c \in Cadastros}
  IN {bd \in {BDVazio} \cup uma \cup duas : Cabe(bd)}

\* The application starts on the database file of its earlier runs.
Init ==
  /\ \E bd \in LojasIniciais : eventos = bd.eventos /\ lembretes = bd.lembretes
  /\ Parado

\* The application starts on an empty database.
InitVazio ==
  /\ eventos = {}
  /\ lembretes = {}
  /\ Parado

Agendador ==
  \/ iniciar
  \/ sair_do_loop
  \/ iniciar_ciclo
  \/ proximo_evento
  \/ avaliar
  \/ dedup
  \/ criar_pendente
  \/ enviar
  \/ registrar_envio
  \/ registrar_falha
  \/ dormir

Api ==
  \/ criar_evento_endpoint
  \/ atualizar_evento_endpoint
  \/ excluir_evento_endpoint

\* One run of the application process on the events registered so far.
Next == Agendador \/ parar \/ Tick

Spec == Init /\ [][Next]_vars

\* Runs of the application over restarts of the process.
NextReinicio == Next \/ reiniciar

SpecReinicio == Init /\ [][NextReinicio]_vars

\* A run in which the scheduler is not stopped and the stored events stay
\* as they are: the thread and its sleep always go on, and the channel
\* fails at most MaxFalhas times.
Rodando ==
  \/ iniciar
  \/ iniciar_ciclo
  \/ proximo_evento
  \/ avaliar
  \/ dedup
  \/ criar_pendente
  \/ enviar
  \/ registrar_envio
  \/ registrar_falha
  \/ dormir

NextRodando == Rodando \/ Tick

SpecRodando == Init /\ [][NextRodando]_vars /\ WF_vars(Rodando)

\* A run in which calls on the database may raise, the scheduler is not
\* stopped and the stored events stay as they are.
FalhaBD ==
  \/ iniciar_ciclo_falha
  \/ dedup_falha
  \/ criar_falha
  \/ registrar_envio_falha
  \/ registrar_falha_falha

NextFalhaBD == Rodando \/ FalhaBD \/ Tick

\* The application starts on a database with two reminders registered: of
\* one event, or of two.
InitDoisLembretes ==
  /\ \E bd \in {salvar(BDVazio, 1, <<1, 0>>),
                 salvar(salvar(BDVazio, 1, <<1>>), 2, <<1>>)} :
       eventos = bd.eventos /\ lembretes = bd.lembretes
  /\ Parado

SpecFalhaBD == InitDoisLembretes /\ [][NextFalhaBD]_vars

\* The same run on a database with one event and its two reminders.
InitUmEvento ==
  /\ \E bd \in {salvar(BDVazio, 1, <<1, 0>>)} :
       eventos = bd.eventos /\ lembretes = bd.lembretes
  /\ Parado

SpecFalhaBDUmEvento == InitUmEvento /\ [][NextFalhaBD]_vars

\* One run of the application in which the scheduler thread always goes on:
\* it is started, its steps are taken and its sleeps end.
SpecJusto == Init /\ [][Next]_vars /\ WF_vars(Agendador)

\* The requests that reach the application on an empty database, one after
\* the other.
SpecCadastro == InitVazio /\ [][Api]_vars

\* The requests that reach the application on the database of its earlier
\* runs, one after the other.
SpecManutencao == Init /\ [][Api]_vars

\* One run of the application with requests arriving while it runs.
NextApi == Next \/ Api

SpecApi == InitVazio /\ [][NextApi]_vars

\* One run of the application process started without its SMTP settings:
\* every channel call raises.
AgendadorSemSMTP ==
  \/ iniciar
  \/ sair_do_loop
  \/ iniciar_ciclo
  \/ proximo_evento
  \/ avaliar
  \/ dedup
  \/ criar_pendente
  \/ enviar_sem_smtp
  \/ registrar_falha
  \/ dormir

NextSemSMTP == AgendadorSemSMTP \/ parar \/ Tick

SpecSemSMTP == Init /\ [][NextSemSMTP]_vars

\* The first cycle of a run, with up to MaxPedidosNoCiclo requests arriving
\* at any point of it: the thread up to its first sleep.
PrimeiroCiclo ==
  \/ iniciar
  \/ iniciar_ciclo
  \/ proximo_evento
  \/ avaliar
  \/ dedup
  \/ criar_pendente
  \/ enviar
  \/ registrar_envio
  \/ registrar_falha

criar_no_ciclo ==
  /\ pedidos < MaxPedidosNoCiclo
  /\ \E data \in Horarios, entrada \in ListasNoCiclo : criar_evento(data, entrada)

atualizar_no_ciclo ==
  /\ pedidos < MaxPedidosNoCiclo
  /\ \E evento_id \in EventoIds, data \in Horarios, entrada \in ListasNoCiclo :
       atualizar_evento(evento_id, data, entrada)

excluir_no_ciclo ==
  /\ pedidos < MaxPedidosNoCiclo
  /\ excluir_evento_endpoint

ApiNoCiclo == criar_no_ciclo \/ atualizar_no_ciclo \/ excluir_no_ciclo

NextPrimeiroCiclo == PrimeiroCiclo \/ ApiNoCiclo \/ Tick

SpecPrimeiroCiclo == InitDoisLembretes /\ [][NextPrimeiroCiclo]_vars

\* A run in which DELETE /eventos/{evento_id} requests arrive while the
\* scheduler thread works on the stored events (each request runs in its own
\* session, between two statements of the thread).
NextExclusao == Rodando \/ excluir_evento_endpoint \/ Tick

SpecExclusao == InitDoisLembretes /\ [][NextExclusao]_vars

\* ------------------------------------------------------------ properties
\* What the properties below read off a state, stated apart from the
\* operators of the program.
EntradasDe(evento_id, minutos, status) ==
  {n \in notificacoes : /\ n.evento_id = evento_id
                        /\ n.lembrete_minutos = minutos
                        /\ n.canal = "email"
                        /\ n.status = status}

TemEnviada(evento_id, minutos) == EntradasDe(evento_id, minutos, "ENVIADO") # {}

Ids(tabela) == {r.id : r \in tabela}

DataDe(evento_id) == Linha(eventos, evento_id).data_horario

\* The stored reminder rows whose trigger instant is at or before `instante`.
LinhasDevidas(instante) ==
  {r \in lembretes : /\ TemLinha(eventos, r.evento_id)
                     /\ instante >= DataDe(r.evento_id) - r.minutos}

\* The positions of the trail where the cycle did `op` for the key.
Posicoes(ops, evento_id, minutos) ==
  {p \in DOMAIN trilha : /\ trilha[p].op \in ops
                         /\ trilha[p].evento_id = evento_id
                         /\ trilha[p].minutos = minutos}

CicloCompleto == pc = "dormir"

\* C1: in every reachable state each dedup key (evento_id, minutos, "email")
\* has at most one ledger entry with status ENVIADO.
C1_NoMaximoUmEnviado ==
  \A e \in EventoIds, m \in MinutosEntrada :
    Cardinality(EntradasDe(e, m, "ENVIADO")) <= 1

\* A key with a failed attempt, a later successful one, and a cycle after
\* them that found the key sent.
C1_Testemunha ==
  \E e \in EventoIds, m \in MinutosEntrada :
    /\ EntradasDe(e, m, "FALHOU") # {}
    /\ EntradasDe(e, m, "ENVIADO") # {}
    /\ Posicoes({"ja_enviada"}, e, m) # {}

\* C3: a due pair whose key already has an ENVIADO entry is skipped: the
\* step makes no channel call, leaves the ledger as it is, raises nothing and
\* goes on to the next reminder; nothing is created or sent for that key in
\* the rest of the cycle.
C3_Passo ==
  (pc = "dedup" /\ pc' # pc /\ TemEnviada(Head(evs).id, Head(lbs).valor))
    => /\ pc' = "avaliar"
       /\ lbs' = Tail(lbs)
       /\ notificacoes' = notificacoes
       /\ entregues' = entregues
       /\ falhas' = falhas
       /\ \A p \in DOMAIN trilha' : trilha'[p].op # "excecao"

C3_Resto ==
  \A p \in DOMAIN trilha, q \in DOMAIN trilha :
    (/\ p < q
     /\ trilha[p].op = "ja_enviada"
     /\ trilha[q].evento_id = trilha[p].evento_id
     /\ trilha[q].minutos = trilha[p].minutos)
      => trilha[q].op \in {"devido", "ja_enviada"}

C3_JaEnviadaNaoReenvia == [][C3_Passo]_vars /\ []C3_Resto

\* A cycle that skipped a key whose only entry is the ENVIADO one.
C3_Testemunha ==
  \E e \in EventoIds, m \in MinutosEntrada :
    /\ Posicoes({"ja_enviada"}, e, m) # {}
    /\ Posicoes({"criar"}, e, m) = {}
    /\ {n \in notificacoes : n.evento_id = e /\ n.lembrete_minutos = m}
         = EntradasDe(e, m, "ENVIADO")

\* C5: when an attempt on a key ended FALHOU and the key has no ENVIADO
\* entry, the cycle that finds the reminder due goes on to create a new
\* PENDENTE entry with an id no entry holds, for the same key, leaving the
\* earlier entries as they are, and calls the channel for it; when the call
\* succeeds it is that new entry which becomes ENVIADO.
C5_Decide ==
  LET e == Head(evs).id
      m == Head(lbs).valor
  IN (/\ pc = "dedup" /\ pc' # pc
      /\ EntradasDe(e, m, "FALHOU") # {}
      /\ ~TemEnviada(e, m))
       => pc' = "criar" /\ lbs' = lbs /\ evs' = evs

C5_Cria ==
  LET e == Head(evs).id
      m == Head(lbs).valor
  IN (pc = "criar" /\ pc' # pc /\ EntradasDe(e, m, "FALHOU") # {})
       => /\ pc' = "enviar"
          /\ notificacoes \subseteq notificacoes'
          /\ \E n \in notificacoes' :
               /\ notificacoes' = notificacoes \cup {n}
               /\ n.id \notin Ids(notificacoes)
               /\ n.id = notificacao'.id
               /\ n.evento_id = e /\ n.lembrete_minutos = m /\ n.canal = "email"
               /\ n.status = "PENDENTE"

C5_Chama ==
  (pc = "enviar" /\ pc' # pc)
    => /\ pc' \in {"marcar_enviado", "marcar_falha"}
       /\ notificacao' = notificacao
       /\ (pc' = "marcar_enviado") =
            (entregues' = [entregues EXCEPT ![Chave(notificacao)] = @ + 1])

C5_Marca ==
  (pc = "marcar_enviado" /\ pc' # pc)
    => \E n \in notificacoes :
         /\ n.id = notificacao.id
         /\ n.status = "PENDENTE"
         /\ \E n2 \in notificacoes' :
              /\ n2.id = n.id /\ n2.status = "ENVIADO"
              /\ notificacoes' = (notificacoes \ {n}) \cup {n2}

C5_NovaTentativa == [][C5_Decide /\ C5_Cria /\ C5_Chama /\ C5_Marca]_vars

\* A key whose first attempt failed and whose later attempt, a new entry,
\* was sent.
C5_Testemunha ==
  \E e \in EventoIds, m \in MinutosEntrada :
    \E f \in EntradasDe(e, m, "FALHOU"), n \in EntradasDe(e, m, "ENVIADO") :
      /\ f.id < n.id
      /\ f.data_envio < n.data_envio
      /\ Posicoes({"enviado"}, e, m) # {}

\* C6: ENVIADO and FALHOU are terminal: a step changes no field of an entry
\* that is ENVIADO or FALHOU; an entry that changes was PENDENTE and becomes
\* ENVIADO or FALHOU; a new entry starts PENDENTE.
C6_Passo ==
  /\ \A n \in notificacoes :
       \/ n \in notificacoes'
       \/ ~TemLinha(notificacoes', n.id)
       \/ /\ n.status = "PENDENTE"
          /\ Linha(notificacoes', n.id).status \in {"ENVIADO", "FALHOU"}
          /\ Chave(Linha(notificacoes', n.id)) = Chave(n)
  /\ \A n \in notificacoes' :
       ~TemLinha(notificacoes, n.id)
         => n.status = "PENDENTE" /\ n.data_envio = SemData /\ n.erro = SemErro

C6_Terminais == [][C6_Passo]_vars

\* A failed entry of an earlier instant, still as it was written, after a
\* later cycle made a new attempt on its key.
C6_Testemunha ==
  \E n \in notificacoes :
    /\ n.status = "FALHOU"
    /\ n.data_envio < agora
    /\ n.erro \in Erros
    /\ Posicoes({"criar"}, n.evento_id, n.lembrete_minutos) # {}
    /\ pc = "avaliar"

\* The stored reminder rows with the key.
LinhasDe(evento_id, minutos) ==
  {r \in lembretes : r.evento_id = evento_id /\ r.minutos = minutos}

SemExcecao == \A p \in DOMAIN trilha : trilha[p].op # "excecao"

\* C7: a cycle evaluated at `agora` treats a stored pair as due exactly when
\* agora >= data_horario - minutos, and considers every stored reminder of
\* every stored event: at the end of the cycle each key was found due once
\* for each of its stored reminders whose trigger instant is at or before
\* agora, and never otherwise.
C7_DevidoSse ==
  CicloCompleto =>
    \A e \in EventoIds, m \in MinutosEntrada :
      Cardinality(Posicoes({"devido"}, e, m))
        = Cardinality(LinhasDe(e, m) \cap LinhasDevidas(agora))

\* A completed cycle that found due a reminder whose trigger instant is the
\* cycle's instant, and left alone one whose trigger instant is the next.
C7_Testemunha ==
  /\ CicloCompleto
  /\ \E r \in lembretes :
       /\ DataDe(r.evento_id) - r.minutos = agora
       /\ Posicoes({"devido"}, r.evento_id, r.minutos) # {}
  /\ \E r \in lembretes :
       /\ DataDe(r.evento_id) - r.minutos = agora + 1
       /\ Posicoes({"devido"}, r.evento_id, r.minutos) = {}

\* C8: a ledger entry is created, and the channel is called, only for a
\* stored reminder that is due at the cycle's agora, and the entry is created
\* only when its key has no ENVIADO entry.
C8_Cria ==
  \A n \in notificacoes' :
    ~TemLinha(notificacoes, n.id)
      => /\ LinhasDe(n.evento_id, n.lembrete_minutos) \cap LinhasDevidas(agora) # {}
         /\ ~TemEnviada(n.evento_id, n.lembrete_minutos)
         /\ agora' = agora

C8_Chama ==
  (entregues' # entregues \/ falhas' # falhas)
    => /\ LinhasDe(notificacao.evento_id, notificacao.lembrete_minutos)
            \cap LinhasDevidas(agora) # {}
       /\ agora' = agora

C8_SoDevidos == [][C8_Cria /\ C8_Chama]_vars

\* An entry just created for a due reminder while another stored reminder,
\* not yet due, has no entry.
C8_Testemunha ==
  /\ pc = "enviar"
  /\ TemLinha(notificacoes, notificacao.id)
  /\ \E r \in lembretes \ LinhasDevidas(agora) :
       \A n \in notificacoes : Chave(n) # <<r.evento_id, r.minutos>>

\* C9: being due does not expire: every stored reminder whose trigger
\* instant is at or before the cycle's agora, however far before, is either
\* skipped because its key is sent or attempted in that cycle, the first
\* cycle of a scheduler started late included.
C9_NaoExpira ==
  CicloCompleto =>
    \A r \in LinhasDevidas(agora) :
      /\ Posicoes({"ja_enviada", "enviado", "falhou"}, r.evento_id, r.minutos) # {}
      /\ Posicoes({"enviado", "falhou"}, r.evento_id, r.minutos) = {}
           => TemEnviada(r.evento_id, r.minutos)

\* The first cycle of a scheduler started when an event is already past:
\* it attempted a reminder whose trigger instant passed MaxTempo ago.
C9_Testemunha ==
  /\ CicloCompleto
  /\ \E r \in lembretes :
       /\ DataDe(r.evento_id) < agora
       /\ DataDe(r.evento_id) - r.minutos = agora - MaxTempo
       /\ Posicoes({"enviado", "falhou"}, r.evento_id, r.minutos) # {}
       /\ \A n \in notificacoes : n.data_envio >= agora

\* C10: a failure of the channel call for one reminder does not leave the
\* cycle: the cycle ends without an exception, having evaluated every stored
\* reminder, and every due reminder after the failed one was skipped as sent
\* or attempted.
C10_FalhaNaoPropaga ==
  (CicloCompleto /\ \E p \in DOMAIN trilha : trilha[p].op = "falhou")
    => /\ SemExcecao
       /\ \A r \in LinhasDevidas(agora) :
            Posicoes({"ja_enviada", "enviado", "falhou"}, r.evento_id, r.minutos) # {}
       /\ Cardinality({p \in DOMAIN trilha : trilha[p].op = "devido"})
            = Cardinality(LinhasDevidas(agora))

\* A completed cycle in which the first reminder of the first event failed
\* and the second reminder of that event and one of the next event were
\* attempted after it.
C10_Testemunha ==
  /\ CicloCompleto
  /\ \E p \in DOMAIN trilha, q \in DOMAIN trilha, r \in DOMAIN trilha :
       /\ p < q /\ q < r
       /\ trilha[p].op = "falhou" /\ trilha[p].evento_id = 1
       /\ trilha[q].op = "enviado" /\ trilha[q].evento_id = 1
       /\ trilha[q].minutos # trilha[p].minutos
       /\ trilha[r].op = "enviado" /\ trilha[r].evento_id = 2

\* C2: for each dedup key the delivery channel completes at most one
\* successful send over the whole execution, restarts of the process at any
\* point of a cycle included.
C2_NoMaximoUmaEntrega ==
  \A k \in DOMAIN entregues : entregues[k] <= 1

\* C4: while the scheduler keeps running and the stored events stay as they
\* are, every stored reminder that is due is eventually sent: from some
\* point on, each due reminder's key has an ENVIADO entry (the channel
\* having succeeded for it).
C4_DevidoAcabaEnviado ==
  <>[](\A r \in lembretes :
         r \in LinhasDevidas(relogio) => TemEnviada(r.evento_id, r.minutos))

\* A key sent after the channel had failed for it, later than its trigger
\* instant.
C4_Testemunha ==
  \E r \in lembretes :
    /\ falhas = MaxFalhas
    /\ EntradasDe(r.evento_id, r.minutos, "FALHOU") # {}
    /\ \E n \in EntradasDe(r.evento_id, r.minutos, "ENVIADO") :
         n.data_envio > DataDe(r.evento_id) - r.minutos
    /\ pc = "loop"

\* C11: an exception raised while one reminder is processed (by the dedup
\* query, the creation of the PENDENTE entry, the channel call or the write
\* of the outcome) does not keep the cycle from the reminders after it: at
\* the end of such a cycle every stored reminder due at `agora` was found due
\* and then skipped as sent or attempted.
C11_ExcecaoNaoInterrompe ==
  (CicloCompleto /\ \E p \in DOMAIN trilha : /\ trilha[p].op = "excecao"
                                             /\ trilha[p].evento_id # 0)
    => \A r \in LinhasDevidas(agora) :
         Posicoes({"devido"}, r.evento_id, r.minutos) # {}

\* C12: an exception that leaves a cycle is caught by the loop: the loop
\* never ends on it, the flag stays True, and the thread goes to its sleep,
\* after which the next cycle starts.
C12_ExcecaoCapturada ==
  /\ pc # "fim"
  /\ (pc # "spawn" => rodando)
  /\ (~SemExcecao => pc = "dormir")

\* A cycle under way after a database error ended an earlier cycle before
\* anything was written.
C12_Testemunha ==
  /\ falhas_bd = MaxFalhasBD
  /\ notificacoes = {}
  /\ rodando
  /\ pc = "evento"

\* C13: when the channel call of an attempt returned, the step that follows
\* turns the PENDENTE entry of that attempt, and no other entry, into ENVIADO
\* with data_envio set, not earlier than the cycle's `agora`, and erro None.
C13_Passo ==
  (pc = "marcar_enviado" /\ pc' # pc) =>
    \E velha \in notificacoes, nova \in notificacoes' :
      /\ velha.id = notificacao.id
      /\ velha.status = "PENDENTE"
      /\ nova = [velha EXCEPT !.status = "ENVIADO", !.data_envio = nova.data_envio,
                              !.erro = SemErro]
      /\ nova.data_envio # SemData
      /\ nova.data_envio >= agora
      /\ notificacoes' \ {nova} = notificacoes \ {velha}

C13_EnvioRegistrado == [][C13_Passo]_vars

\* An entry sent and recorded at an instant after the one at which its cycle
\* evaluated the reminder.
C13_Testemunha ==
  /\ pc = "avaliar"
  /\ \E p \in DOMAIN trilha :
       /\ trilha[p].op = "enviado"
       /\ \E n \in EntradasDe(trilha[p].evento_id, trilha[p].minutos, "ENVIADO") :
            n.data_envio > agora /\ n.erro = SemErro

\* C14: when the channel call of an attempt raised, the step that follows
\* turns the PENDENTE entry of that attempt, and no other entry, into FALHOU
\* with data_envio set and erro the text of the exception; in every state
\* only FALHOU entries hold an error text.
C14_Passo ==
  (pc = "marcar_falha" /\ pc' # pc) =>
    \E velha \in notificacoes, nova \in notificacoes' :
      /\ velha.id = notificacao.id
      /\ velha.status = "PENDENTE"
      /\ nova = [velha EXCEPT !.status = "FALHOU", !.data_envio = nova.data_envio,
                              !.erro = erro_envio]
      /\ erro_envio \in Erros
      /\ nova.data_envio # SemData
      /\ notificacoes' \ {nova} = notificacoes \ {velha}

C14_SoFalhasTemErro ==
  \A n \in notificacoes : n.erro # SemErro => n.status = "FALHOU"

C14_FalhaRegistrada == [][C14_Passo]_vars /\ []C14_SoFalhasTemErro

\* The channel failed with "SMTP timeout" and the entry of the attempt is
\* FALHOU with that text, next to an entry of another key that was sent.
C14_Testemunha ==
  /\ pc = "avaliar"
  /\ \E n \in notificacoes :
       /\ n.status = "FALHOU"
       /\ n.erro = "SMTP timeout"
       /\ n.data_envio # SemData
  /\ \E n \in notificacoes : n.status = "ENVIADO"

\* C15: parar only lowers the flag, and the cycle under way does not read
\* it: a cycle that ends with the flag down has evaluated every stored
\* reminder, skipped as sent or attempted every one due at `agora`, and
\* written the outcome of every attempt; the loop is left only after that.
C15_PararCooperativo ==
  /\ (CicloCompleto /\ ~rodando /\ SemExcecao) =>
       /\ \A r \in LinhasDevidas(agora) :
            Posicoes({"ja_enviada", "enviado", "falhou"}, r.evento_id, r.minutos) # {}
       /\ Cardinality({p \in DOMAIN trilha : trilha[p].op = "devido"})
            = Cardinality(LinhasDevidas(agora))
       /\ \A n \in notificacoes : n.status # "PENDENTE"
  /\ pc = "fim" => \A n \in notificacoes : n.status # "PENDENTE"

\* The flag is down while the cycle is about to write the PENDENTE entry of
\* a due reminder, with another due reminder still to come.
C15_Testemunha ==
  /\ encerrando
  /\ ~rodando
  /\ pc = "criar"
  /\ Len(lbs) = 2
  /\ Cardinality(LinhasDevidas(agora)) >= 2

\* C16: once parar has been called the loop is eventually left, whatever the
\* interleaving of the call with the thread that runs iniciar.
C16_PararTermina == encerrando ~> (pc = "fim")

\* C17: cycles do not overlap: outside a cycle (before the loop, at the loop
\* test, in the sleep, after the loop) nothing of a cycle is under way, no
\* objects are held and no entry is PENDENTE; and the sleep begins only when
\* the cycle has found every stored reminder that is due at `agora`.
C17_SemSobreposicao ==
  /\ ~EmCiclo =>
       /\ evs = <<>> /\ lbs = <<>>
       /\ notificacao = NenhumaNotificacao
       /\ \A n \in notificacoes : n.status # "PENDENTE"
  /\ (CicloCompleto /\ SemExcecao) =>
       \A r \in LinhasDevidas(agora) :
         Posicoes({"devido"}, r.evento_id, r.minutos) # {}

\* A second cycle starting on two events after an earlier cycle wrote the
\* outcome of an attempt.
C17_Testemunha ==
  /\ pc = "evento"
  /\ trilha = <<>>
  /\ Len(evs) = 2
  /\ \E n \in notificacoes : n.status # "PENDENTE" /\ n.data_envio < relogio

\* C18: within a cycle each attempt on a key goes dedup check, PENDENTE
\* write, channel call, outcome write, in that order, and one attempt at a
\* time.  At the PENDENTE write the key was just found due and not sent; at
\* the channel call the only PENDENTE entry is the one just created for the
\* key; at the outcome write the channel was called right after that
\* creation and the entry is still the only PENDENTE one; at every other
\* point no entry is PENDENTE.
C18_UltimoPasso(ops) ==
  /\ trilha # <<>>
  /\ trilha[Len(trilha)].op \in ops
  /\ trilha[Len(trilha)].evento_id = Head(evs).id
  /\ trilha[Len(trilha)].minutos = Head(lbs).valor

C18_UnicaPendente ==
  /\ \E n \in notificacoes :
       /\ n.id = notificacao.id
       /\ n.status = "PENDENTE"
       /\ Chave(n) = Chave(notificacao)
  /\ \A n \in notificacoes : n.status = "PENDENTE" => n.id = notificacao.id

C18_Ordem ==
  /\ pc = "criar" =>
       /\ C18_UltimoPasso({"devido"})
       /\ ~TemEnviada(Head(evs).id, Head(lbs).valor)
       /\ \A n \in notificacoes : n.status # "PENDENTE"
  /\ pc = "enviar" =>
       /\ trilha[Len(trilha)].op = "criar"
       /\ trilha[Len(trilha)].evento_id = notificacao.evento_id
       /\ trilha[Len(trilha)].minutos = notificacao.lembrete_minutos
       /\ C18_UnicaPendente
  /\ pc \in {"marcar_enviado", "marcar_falha"} =>
       /\ Len(trilha) >= 2
       /\ trilha[Len(trilha)].op = (IF pc = "marcar_enviado" THEN "enviado" ELSE "falhou")
       /\ trilha[Len(trilha) - 1].op = "criar"
       /\ trilha[Len(trilha) - 1].evento_id = notificacao.evento_id
       /\ trilha[Len(trilha) - 1].minutos = notificacao.lembrete_minutos
       /\ C18_UnicaPendente
  /\ pc \notin {"enviar", "marcar_enviado", "marcar_falha"} =>
       \A n \in notificacoes : n.status # "PENDENTE"

\* The second attempt of a cycle at its outcome write, after the first
\* attempt of the cycle, on another key, had its outcome written.
C18_Testemunha ==
  /\ pc = "marcar_enviado"
  /\ Cardinality({p \in DOMAIN trilha : trilha[p].op = "criar"}) = 2
  /\ Cardinality(notificacoes) = 2
  /\ \E n \in notificacoes : n.status = "FALHOU" /\ Chave(n) # Chave(notificacao)

\* The reminder lists an event can hold.
ListasValidas == {l \in ListasEntrada : \A k \in DOMAIN l : l[k] >= 0}

\* The minutes of the stored reminders of an event, in the order of the rows.
MinutosDe(evento_id) ==
  LET s == PorId({r \in lembretes : r.evento_id = evento_id})
  IN [k \in 1..Len(s) |-> s[k].minutos]

\* C19: adding a reminder with negative minutes to an event raises and
\* leaves the event's reminders as they were; adding one with minutes >= 0,
\* zero included, appends it.  So a request that was accepted stored its
\* reminders as sent, in order, and a request refused with 400 carried a
\* negative one.
C19_NaEntidade ==
  \A lista \in ListasValidas, m \in MinutosEntrada :
    LET r == adicionar_lembrete(lista, m)
    IN IF m < 0
       THEN r.erro /\ r.lembretes = lista
       ELSE /\ ~r.erro
            /\ Len(r.lembretes) = Len(lista) + 1
            /\ r.lembretes[Len(lista) + 1] = m
            /\ SubSeq(r.lembretes, 1, Len(lista)) = lista

C19_AdicionarLembrete ==
  /\ C19_NaEntidade
  /\ (resposta = 200 /\ ultima_entrada # <<>>) =>
       \E e \in eventos : MinutosDe(e.id) = ultima_entrada
  /\ resposta = 400 => \E k \in DOMAIN ultima_entrada : ultima_entrada[k] < 0

\* A request refused at its second reminder, the first one, with zero
\* minutes, having been added, after a request with a reminder of zero
\* minutes was accepted.
C19_Testemunha ==
  /\ resposta = 400
  /\ ultima_entrada = <<0, -1>>
  /\ \E e \in eventos : MinutosDe(e.id) = <<0>>

\* C20: every stored reminder has minutes >= 0: a create or update request
\* with a negative value among its reminders is refused and leaves the
\* events, the reminders and the ledger as they were.
C20_Passo ==
  (pedidos' # pedidos /\ \E k \in DOMAIN ultima_entrada' : ultima_entrada'[k] < 0)
    => /\ resposta' \in {400, 404}
       /\ eventos' = eventos
       /\ lembretes' = lembretes
       /\ notificacoes' = notificacoes

C20_SoNaoNegativos == \A r \in lembretes : r.minutos >= 0

C20_MinutosNaoNegativos == [][C20_Passo]_vars /\ []C20_SoNaoNegativos

\* An update of a stored event refused for a negative value after a valid
\* one, the event keeping the two reminders it had.
C20_Testemunha ==
  /\ resposta = 404
  /\ ultima_entrada = <<1, -1>>
  /\ \E e \in eventos : Len(MinutosDe(e.id)) = 2

\* C21: in every reachable state every reminder row and every ledger entry
\* refers to a stored event, also when an event is deleted while a scheduler
\* cycle that has read it is in flight.
C21_SemOrfaos ==
  /\ \A r \in lembretes : TemLinha(eventos, r.evento_id)
  /\ \A n \in notificacoes : TemLinha(eventos, n.evento_id)

\* C22: two reminders of one event with different minutes have separate
\* dedup keys and ledger lifecycles: a reminder is skipped only when its own
\* key has an ENVIADO entry, whatever entries the event's other reminders
\* have; and in a cycle where the channel failed for one reminder, each other
\* due reminder of the event was skipped as sent or attempted, and the one
\* whose call succeeded has its ENVIADO entry.
C22_SoPulaAPropria ==
  \A p \in DOMAIN trilha :
    trilha[p].op = "ja_enviada"
      => TemEnviada(trilha[p].evento_id, trilha[p].minutos)

C22_FalhaDoOutro ==
  CicloCompleto =>
    \A r1 \in LinhasDevidas(agora), r2 \in LinhasDevidas(agora) :
      (/\ r1.evento_id = r2.evento_id
       /\ r1.minutos # r2.minutos
       /\ Posicoes({"falhou"}, r1.evento_id, r1.minutos) # {})
        => /\ Posicoes({"ja_enviada", "enviado", "falhou"},
                       r2.evento_id, r2.minutos) # {}
           /\ Posicoes({"enviado"}, r2.evento_id, r2.minutos) # {}
                => TemEnviada(r2.evento_id, r2.minutos)
           /\ EntradasDe(r1.evento_id, r1.minutos, "FALHOU") # {}

C22_ChavesIndependentes == C22_SoPulaAPropria /\ C22_FalhaDoOutro

\* A completed cycle in which the channel failed for one reminder of an
\* event and, with the FALHOU entry of that key in the ledger, the event's
\* other reminder was attempted and sent; the failed key has no ENVIADO entry.
C22_Testemunha ==
  /\ CicloCompleto
  /\ \E e \in EventoIds, m1 \in MinutosEntrada, m2 \in MinutosEntrada :
       /\ m1 # m2
       /\ \E p \in Posicoes({"falhou"}, e, m1), q \in Posicoes({"criar"}, e, m2) :
            p < q
       /\ Posicoes({"ja_enviada"}, e, m2) = {}
       /\ EntradasDe(e, m1, "FALHOU") # {}
       /\ ~TemEnviada(e, m1)
       /\ EntradasDe(e, m2, "PENDENTE") = {}
       /\ TemEnviada(e, m2)

\* C23: when every channel call fails (SMTP settings incomplete) the thread
\* leaves the loop only after parar; a completed cycle made one failed
\* attempt for each stored due reminder; no entry is ENVIADO; and every
\* failure is one FALHOU entry with the error text that stays in the ledger,
\* earlier ones with the new ones.
C23_Falhadas == {n \in notificacoes : n.status = "FALHOU"}

C23_SegueRodando ==
  /\ pc = "fim" => encerrando
  /\ (pc \notin {"spawn", "fim"} /\ ~encerrando) => rodando

C23_UmaFalhaPorDevido ==
  CicloCompleto =>
    /\ SemExcecao
    /\ \A e \in EventoIds, m \in MinutosEntrada :
         /\ Cardinality(Posicoes({"falhou"}, e, m))
              = Cardinality(LinhasDe(e, m) \cap LinhasDevidas(agora))
         /\ Cardinality(EntradasDe(e, m, "FALHOU"))
              >= Cardinality(Posicoes({"falhou"}, e, m))
         /\ EntradasDe(e, m, "PENDENTE") = {}

C23_FalhasFicam ==
  /\ \A n \in notificacoes : n.status # "ENVIADO"
  /\ \A n \in C23_Falhadas : n.erro = "Variaveis SMTP faltando"
  /\ Cardinality(C23_Falhadas)
       = falhas - (IF pc = "marcar_falha" THEN 1 ELSE 0)

C23_CanalSempreFalha ==
  C23_SegueRodando /\ C23_UmaFalhaPorDevido /\ C23_FalhasFicam

\* A completed cycle, not the first, with two due keys: each has the FALHOU
\* entry of this cycle and the one of an earlier instant.
C23_Testemunha ==
  /\ CicloCompleto
  /\ rodando
  /\ \E e \in EventoIds, m1 \in MinutosEntrada, m2 \in MinutosEntrada :
       /\ m1 # m2
       /\ Posicoes({"falhou"}, e, m1) # {}
       /\ Posicoes({"falhou"}, e, m2) # {}
       /\ \E a \in EntradasDe(e, m1, "FALHOU"), b \in EntradasDe(e, m1, "FALHOU") :
            a.data_envio < agora /\ b.data_envio >= agora /\ a.id < b.id

\* The steps of the current cycle with one of the operations.
PassosDe(ops) == {p \in DOMAIN trilha : trilha[p].op \in ops}

\* The keys the current cycle has a step for.
ChavesDaTrilha ==
  {<<trilha[p].evento_id, trilha[p].minutos>> : p \in DOMAIN trilha}

\* The entries the current cycle created: no entry is deleted while the
\* scheduler runs alone, so they are the ones with the highest ids.
CriadasNoCiclo ==
  {n \in notificacoes :
     n.id > MaxId(notificacoes) - Cardinality(PassosDe({"criar"}))}

\* C24: for each due reminder without an ENVIADO entry that a cycle
\* processes there is one PENDENTE entry created, one channel call and one
\* outcome written on that entry: for every key the cycle's creations and
\* channel calls are equal in number, but for the attempt in flight; and at
\* the end of a cycle that no exception left, each reminder found due was
\* skipped as sent or got its entry, and every entry the cycle created is
\* ENVIADO or FALHOU with the instant of the outcome, as many of each as the
\* calls that ended one way and the other.
C24_UmaChamadaPorEntrada ==
  \A k \in ChavesDaTrilha :
    Cardinality(Posicoes({"criar"}, k[1], k[2]))
      = Cardinality(Posicoes({"enviado", "falhou"}, k[1], k[2]))
          + (IF pc = "enviar" /\ Chave(notificacao) = k THEN 1 ELSE 0)

C24_UmDesfechoPorEntrada ==
  (CicloCompleto /\ SemExcecao) =>
    /\ \A k \in ChavesDaTrilha :
         Cardinality(Posicoes({"devido"}, k[1], k[2]))
           = Cardinality(Posicoes({"ja_enviada"}, k[1], k[2]))
               + Cardinality(Posicoes({"criar"}, k[1], k[2]))
    /\ Cardinality(CriadasNoCiclo) = Cardinality(PassosDe({"criar"}))
    /\ \A n \in CriadasNoCiclo :
         /\ n.status \in {"ENVIADO", "FALHOU"}
         /\ n.data_envio >= agora
         /\ Posicoes({"criar"}, n.evento_id, n.lembrete_minutos) # {}
    /\ Cardinality({n \in CriadasNoCiclo : n.status = "ENVIADO"})
         = Cardinality(PassosDe({"enviado"})) - Cardinality(PassosDe({"erro_bd"}))
    /\ Cardinality({n \in CriadasNoCiclo : n.status = "FALHOU"})
         = Cardinality(PassosDe({"falhou"})) + Cardinality(PassosDe({"erro_bd"}))

C24_UmaDeCada == C24_UmaChamadaPorEntrada /\ C24_UmDesfechoPorEntrada

\* A cycle that no exception left, which created two entries and wrote
\* their outcomes, while an entry of an earlier cycle that an exception
\* left is still PENDENTE.
C24_Testemunha ==
  /\ CicloCompleto
  /\ SemExcecao
  /\ Cardinality(PassosDe({"criar"})) = 2
  /\ \E n \in notificacoes \ CriadasNoCiclo : n.status = "PENDENTE"

\* C25: within one cycle at most one ledger entry is created and at most one
\* channel call is made for each dedup key.
C25_UmaPorChave ==
  \A k \in ChavesDaTrilha :
    /\ Cardinality(Posicoes({"criar"}, k[1], k[2])) <= 1
    /\ Cardinality(Posicoes({"enviado", "falhou"}, k[1], k[2])) <= 1

\* C26: in every reachable state no event holds two reminders with the same
\* minutes, whatever lists the create and update requests carried.
C26_LembretesDistintos ==
  \A r1 \in lembretes, r2 \in lembretes :
    (r1.evento_id = r2.evento_id /\ r1.minutos = r2.minutos) => r1 = r2

\* C27: an update answered 200 leaves the event, under the same id, with
\* exactly the reminders of the request's list, in its order, none of the
\* earlier ones; no event is added or removed, and the other events and
\* their reminder rows stay as they were.
C27_Passo ==
  (pedidos' # pedidos /\ ultimo_pedido'.op = "atualizar" /\ resposta' = 200)
    => \E e \in EventoIds :
         /\ e = ultimo_pedido'.evento_id
         /\ e \in Ids(eventos)
         /\ Ids(eventos') = Ids(eventos)
         /\ MinutosDe(e)' = ultima_entrada'
         /\ {r \in lembretes' : r.evento_id # e}
              = {r \in lembretes : r.evento_id # e}
         /\ {x \in eventos' : x.id # e} = {x \in eventos : x.id # e}

C27_AtualizarSubstitui == [][C27_Passo]_vars

\* The first request of a run, an update of event 2 with the list <<0>>, a
\* list no registered event had: event 2 holds that reminder alone, and
\* event 1 its own.
C27_Testemunha ==
  /\ pedidos = 1
  /\ resposta = 200
  /\ ultimo_pedido = [op |-> "atualizar", evento_id |-> 2]
  /\ ultima_entrada = <<0>>
  /\ MinutosDe(2) = <<0>>
  /\ MinutosDe(1) = <<1, 0>>

\* A step of a request handler.
PassoDePedido == pedidos' # pedidos

\* C28: a ledger entry leaves the ledger only when its event is deleted:
\* whatever the step (a create, an update that replaces the reminders or
\* changes data_horario, a step of the scheduler's cycle), every entry is
\* still in the ledger afterwards, unless the step is the DELETE of the
\* entry's event answered 200.
C28_Passo ==
  \A n \in notificacoes :
    \/ TemLinha(notificacoes', n.id)
    \/ /\ PassoDePedido
       /\ resposta' = 200
       /\ ultimo_pedido' = [op |-> "excluir", evento_id |-> n.evento_id]

C28_SoExcluirRemove == [][C28_Passo]_vars

\* After an update answered 200 that left the event without the reminder of
\* minutes m, the ENVIADO entry of (event, m) is still in the ledger.
C28_Testemunha ==
  /\ resposta = 200
  /\ ultimo_pedido.op = "atualizar"
  /\ \E n \in notificacoes :
       /\ n.evento_id = ultimo_pedido.evento_id
       /\ n.status = "ENVIADO"
       /\ LinhasDe(n.evento_id, n.lembrete_minutos) = {}

\* C29: the request handlers do not write ledger entries: after a step of
\* create, update or delete every entry of the ledger is an entry that was
\* there, with the same status, data_envio and erro (a delete removes the
\* entries of its event and writes none).
C29_Passo ==
  PassoDePedido =>
    /\ notificacoes' \subseteq notificacoes
    /\ ultimo_pedido'.op # "excluir" => notificacoes' = notificacoes

C29_PedidosNaoEscrevem == [][C29_Passo]_vars

\* A create or an update answered 200 while an attempt is in flight: the
\* PENDENTE entry of the attempt is in the ledger, as the scheduler wrote it.
C29_Testemunha ==
  /\ resposta = 200
  /\ ultimo_pedido.op \in {"criar", "atualizar"}
  /\ pc = "marcar_enviado"
  /\ interferencia
  /\ \E n \in notificacoes :
       /\ n.id = notificacao.id
       /\ n.status = "PENDENTE"
       /\ n.data_envio = SemData
  /\ \E n \in notificacoes : n.status = "ENVIADO"

\* C30: an update or a delete of an id that no stored event has is answered
\* 404 and changes nothing: the events, the reminders, the ledger, and the
\* scheduler thread's position, flag and cycle are as they were.
C30_Passo ==
  (/\ PassoDePedido
   /\ ultimo_pedido'.op \in {"atualizar", "excluir"}
   /\ ~TemLinha(eventos, ultimo_pedido'.evento_id))
    => /\ resposta' = 404
       /\ UNCHANGED <<outro, eventos, lembretes, notificacoes>>
       /\ UNCHANGED <<outro, pc, rodando, encerrando, relogio, ciclo, interferencia,
                      entregues, falhas>>

C30_NaoEncontrado == [][C30_Passo]_vars

\* An update with a valid list for an id that is not stored, answered 404
\* while the channel call of an attempt is pending.
C30_Testemunha ==
  /\ resposta = 404
  /\ ultimo_pedido.op = "atualizar"
  /\ ~TemLinha(eventos, ultimo_pedido.evento_id)
  /\ ultima_entrada = <<0>>
  /\ pc = "enviar"
  /\ ~interferencia
  /\ \E n \in notificacoes : n.status = "PENDENTE"

\* C31: an update is answered 404 only when no stored event has the id; an
\* update of a stored event with a negative minutos_antecedencia in its
\* list is answered 400, as a create is.
C31_NaoEncontradoSoSemEvento ==
  (ultimo_pedido.op = "atualizar" /\ TemLinha(eventos, ultimo_pedido.evento_id))
    => /\ resposta # 404
       /\ (\E k \in DOMAIN ultima_entrada : ultima_entrada[k] < 0)
            => resposta = 400

\* The reminder rows in the order the cycle meets them: by event, then by row.
RECURSIVE EmOrdem(_)
EmOrdem(linhas) ==
  IF linhas = {} THEN <<>>
  ELSE LET r == CHOOSE x \in linhas :
                  \A y \in linhas :
                    \/ x.evento_id < y.evento_id
                    \/ x.evento_id = y.evento_id /\ x.id <= y.id
       IN <<r>> \o EmOrdem(linhas \ {r})

\* The pairs a cycle found due, in the order it found them.
DevidosDoCiclo ==
  LET s == SelectSeq(trilha, LAMBDA p : p.op = "devido")
  IN [k \in 1..Len(s) |-> <<s[k].evento_id, s[k].minutos>>]

\* C32: the due pairs of a cycle are a function of its agora and of the
\* stored events and reminders alone: at the end of every cycle, whatever
\* the ledger holds and whatever earlier cycles did, the pairs found due are
\* the stored reminders with agora >= data_horario - minutos, each once, in
\* the order of the rows.
C32_DevidosSoDaLoja ==
  CicloCompleto =>
    LET s == EmOrdem(LinhasDevidas(agora))
    IN DevidosDoCiclo = [k \in 1..Len(s) |-> <<s[k].evento_id, s[k].minutos>>]

\* The end of a cycle whose ledger holds, from earlier cycles, a FALHOU and
\* an ENVIADO entry of a key it found due and an ENVIADO entry of another:
\* it found due the same two pairs as a first cycle at that instant.
C32_Testemunha ==
  /\ CicloCompleto
  /\ Len(DevidosDoCiclo) = 2
  /\ DevidosDoCiclo[1] # DevidosDoCiclo[2]
  /\ \A k \in 1..2 :
       /\ Posicoes({"ja_enviada"}, DevidosDoCiclo[k][1], DevidosDoCiclo[k][2]) # {}
       /\ Posicoes({"criar"}, DevidosDoCiclo[k][1], DevidosDoCiclo[k][2]) = {}
  /\ \E n \in notificacoes : n.status = "FALHOU"

\* ------------------------------------------- a second call of iniciar
\* threading.Thread(target=scheduler.iniciar).start() once more, on the same
\* ReminderScheduler: iniciar has no test of self.rodando before its loop.
nova_thread ==
  /\ outro.pc = "nenhuma"
  /\ outro' = [SemThread EXCEPT !.pc = "spawn"]
  /\ UNCHANGED <<loja, notificacoes, relogio, rodando, encerrando, pc, ciclo,
                 interferencia, entregues, fantasmas, resposta>>

\* The interpreter switches between the two threads on iniciar: the thread
\* that takes the scheduler's steps becomes the waiting one.  The flag, the
\* database and the clock are shared; position and locals are per thread.
trocar ==
  /\ outro.pc # "nenhuma"
  /\ outro' = [pc |-> pc, agora |-> agora, evs |-> evs, lbs |-> lbs,
               notificacao |-> notificacao, erro_envio |-> erro_envio,
               trilha |-> trilha, interferencia |-> interferencia]
  /\ pc' = outro.pc
  /\ agora' = outro.agora
  /\ evs' = outro.evs
  /\ lbs' = outro.lbs
  /\ notificacao' = outro.notificacao
  /\ erro_envio' = outro.erro_envio
  /\ trilha' = outro.trilha
  /\ interferencia' = outro.interferencia
  /\ UNCHANGED <<loja, notificacoes, relogio, rodando, encerrando, entregues,
                 fantasmas, resposta>>

\* A database with one event and one reminder, due from the start.
InitUmLembrete ==
  /\ \E bd \in {salvar(BDVazio, 1, <<1>>)} :
       eventos = bd.eventos /\ lembretes = bd.lembretes
  /\ Parado

\* iniciar and parar called in any order, iniciar possibly twice.
NextDoisLoops == Agendador \/ parar \/ nova_thread \/ trocar

SpecDoisLoops == InitUmLembrete /\ [][NextDoisLoops]_vars

\* C33: whatever the sequence of iniciar and parar calls, at most one loop
\* is executing a cycle: the two threads are never both inside
\* processar_lembretes.
C33_UmLoopSo ==
  ~(/\ EmCiclo
    /\ outro.pc \in {"evento", "avaliar", "dedup", "criar", "enviar",
                     "marcar_enviado", "marcar_falha"})

\* ------------------------------------- updates between the cycles
\* A database with one event and one reminder, due when the event occurs.
InitNaHora ==
  /\ \E bd \in {salvar(BDVazio, 1, <<0>>)} :
       eventos = bd.eventos /\ lembretes = bd.lembretes
  /\ Parado

\* The scheduler thread cycle after cycle, the clock, and PUT and DELETE
\* requests arriving between its steps.
NextSupressao == Rodando \/ atualizar_no_ciclo \/ excluir_no_ciclo \/ Tick

SpecSupressao == InitNaHora /\ [][NextSupressao]_vars

\* The ids of the ledger entries of a key, whatever their status.
IdsDaChave(evento_id, minutos) ==
  {n.id : n \in {x \in notificacoes : /\ x.evento_id = evento_id
                                      /\ x.lembrete_minutos = minutos
                                      /\ x.canal = "email"}}

\* C34: while the ledger holds an ENVIADO entry of (evento_id, minutos,
\* "email"), no step creates an entry of that key or calls the channel for
\* it, also after an update gave the event a later data_horario or a new
\* reminder list with the same minutes; and the ENVIADO entry leaves the
\* ledger only by the DELETE of its event.
C34_Passo ==
  \A e \in EventoIds, m \in MinutosEntrada :
    TemEnviada(e, m) =>
      /\ IdsDaChave(e, m)' \subseteq IdsDaChave(e, m)
      /\ entregues'[<<e, m>>] <= entregues[<<e, m>>]
      /\ ~TemEnviada(e, m)' =>
           /\ PassoDePedido
           /\ resposta' = 200
           /\ ultimo_pedido' = [op |-> "excluir", evento_id |-> e]

C34_EnviadaSuprime == [][C34_Passo]_vars

\* The end of a cycle that found due and skipped a reminder sent before the
\* update that moved its event to a later data_horario and stored its
\* reminder list again: the key has its one entry and one delivery.
C34_Testemunha ==
  \E e \in EventoIds, m \in MinutosEntrada :
    /\ CicloCompleto
    /\ ultimo_pedido = [op |-> "atualizar", evento_id |-> e]
    /\ resposta = 200
    /\ Posicoes({"ja_enviada"}, e, m) # {}
    /\ \E n \in EntradasDe(e, m, "ENVIADO") :
         /\ n.data_envio < DataDe(e) - m
         /\ agora >= DataDe(e) - m
    /\ Cardinality(IdsDaChave(e, m)) = 1
    /\ entregues[<<e, m>>] = 1

====
